---- MODULE Spec2Model ----
(***************************************************************************)
(* A model of lotto_app (src/app.py): the ticket generator                 *)
(* (generate_ticket, weighted_pick), the frequency builder                 *)
(* (load_lottery_data, parse_numbers), the per-game cache                  *)
(* (CACHE, get_cached_freq) and the two request handlers (index,           *)
(* api_generate).                                                           *)
(*                                                                         *)
(* The module holds several specifications over one set of variables; a    *)
(* specification leaves the variables of the components it does not run    *)
(* at their idle values:                                                   *)
(*   TicketSpec      one call of generate_ticket on arbitrary arguments    *)
(*   LoopSpec        the weighted branch, under a fair sampler             *)
(*   BuilderSpec     load_lottery_data then parse_numbers on a dataset     *)
(*   BatchSpec       one request served by index or api_generate           *)
(*   CacheSeqSpec    get_cached_freq, one call at a time                   *)
(*   CacheSpec       get_cached_freq called by concurrent threads          *)
(***************************************************************************)
EXTENDS Integers, Sequences, FiniteSets, TLC

VARIABLES
    \* ---- generate_ticket: its arguments, position and locals
    targs,        \* the keyword arguments of the running call
    pc,           \* position in generate_ticket
    picked,       \* the local set `picked` (line 76)
    drawn,        \* the value weighted_pick returned last in the loop, 0 before
    main_nums,    \* the local `main_nums`
    special_num,  \* the local `special_num`
    exc,          \* the exception that left generate_ticket, "" if none
    \* ---- the frequency builder: load_lottery_data, then parse_numbers
    csv,          \* the downloaded dataset: its columns and its rows
    years,        \* the argument `years` of load_lottery_data
    now_year,     \* datetime.now().year
    df,           \* the filtered frame load_lottery_data returns
    bpc,          \* position in the builder
    built,        \* the pair parse_numbers returns, None before
    bexc,         \* the exception that left the builder, "" if none
    \* ---- a request handler: index or api_generate
    handler,      \* which handler runs
    request,      \* the request: its method and its form or query values
    hpc,          \* position in the handler
    hlocals,      \* the handler's locals: years, count, mode, cfg, the distributions
    todo,         \* iterations of `for _ in range(count)` still to run
    results,      \* the list `results` of index, `out` of api_generate
    response,     \* the response sent, None before
    \* ---- the cache: CACHE and the calls of get_cached_freq
    CACHE,        \* game -> [ts, df, main_freq, special_freq]
    clock,        \* the calendar day, date.today()
    nextId,       \* the number of the next refresh computation
    last,         \* the last completed sequential call and what it returned
    threads       \* per thread: its position in get_cached_freq and its locals

tvars == <<targs, pc, picked, drawn, main_nums, special_num, exc>>
bvars == <<csv, years, now_year, df, bpc, built, bexc>>
hvars == <<handler, request, hpc, hlocals, todo, results, response>>
cvars == <<CACHE, clock, nextId, last, threads>>
vars == <<tvars, bvars, hvars, cvars>>

(***************************************************************************)
(* Bounds of the model.                                                    *)
(***************************************************************************)
MaxMainRange == 2      \* main_range is drawn from 1..MaxMainRange
MaxSpecialRange == 2   \* special_range is drawn from 0..MaxSpecialRange
MaxCount == 3          \* main_count is drawn from 0..MaxCount
MaxTally == 1          \* tallies of a distribution are drawn from 1..MaxTally
MaxRecords == 2        \* a dataset holds at most MaxRecords rows
MaxYears == 2          \* years is drawn from 1..MaxYears
MaxBatch == 2          \* a request asks for 0..MaxBatch tickets
MaxDay == 2            \* the calendar runs over the days 1..MaxDay
MaxRefresh == 2        \* at most MaxRefresh refresh computations start
NThreads == 2          \* concurrent callers of get_cached_freq

(***************************************************************************)
(* Values.  Python's None and an optional value are <<>> and <<v>>, so     *)
(* that an empty pd.Series (a function with an empty domain) is not None.  *)
(***************************************************************************)
None == <<>>
Some(v) == <<v>>
Val(o) == o[1]

\* A frequency distribution (the pd.Series value_counts returns): index -> tally.
Tallies == 1..MaxTally
Distributions(keys) == UNION {[S -> Tallies] : S \in SUBSET keys}
\* Main values a dataset may hold: the range and one value past it.
MainKeys == 1..(MaxMainRange + 1)
\* Special values a dataset may hold: below, inside and past every range.
SpecialKeys == {0, 1, MaxSpecialRange + 1}

(***************************************************************************)
(* weighted_pick (lines 67-70): random.choices(nums, weights, k=1)[0].     *)
(* random.choices raises IndexError on an empty population; otherwise it   *)
(* returns some index whose weight is positive.                            *)
(***************************************************************************)
weighted_pick_raises(freq_series) == DOMAIN freq_series = {}
weighted_pick(freq_series) == {n \in DOMAIN freq_series : freq_series[n] > 0}

\* sorted(...) of a set of integers: ascending, by repeated extraction of the minimum.
RECURSIVE sorted(_)
sorted(S) ==
    IF S = {} THEN <<>>
    ELSE LET m == CHOOSE x \in S : \A y \in S : x <= y
         IN <<m>> \o sorted(S \ {m})

\* random.sample(range(1, main_range + 1), main_count): the sets it may draw;
\* it raises ValueError when main_count exceeds the population (or is negative).
random_sample_raises(main_range, main_count) ==
    main_count > main_range \/ main_count < 0
random_sample(main_range, main_count) ==
    {S \in SUBSET (1..main_range) : Cardinality(S) = main_count}

\* random.randint(1, special_range): raises ValueError on an empty range.
randint_raises(special_range) == special_range < 1
randint(special_range) == 1..special_range

\* (mutant) the lower end of the range is not checked
in_official_range_no_floor(s, special_range) == s <= special_range
\* line 83: 1 <= int(special_num) <= special_range
in_official_range(s, special_range) == 1 <= s /\ s <= special_range

\* line 75: the guard of the weighted branch
takes_weighted(a) ==
    a.weighted /\ a.main_freq # None /\ a.special_freq # None

\* (mutant) the loop runs one value too long
loop_continues_off_by_one(p, main_count) == Cardinality(p) <= main_count
\* line 77: the loop condition
loop_continues(p, main_count) == Cardinality(p) < main_count

TicketArgs ==
    [main_range : 1..MaxMainRange,
     special_range : 0..MaxSpecialRange,
     main_count : 0..MaxCount,
     weighted : BOOLEAN,
     main_freq : {None} \cup {Some(d) : d \in Distributions(MainKeys)},
     special_freq : {None} \cup {Some(d) : d \in Distributions(SpecialKeys)}]

NoArgs ==
    [main_range |-> 1, special_range |-> 1, main_count |-> 0,
     weighted |-> FALSE, main_freq |-> None, special_freq |-> None]

TicketIdle ==
    /\ targs = NoArgs
    /\ pc = "idle"
    /\ picked = {}
    /\ drawn = 0
    /\ main_nums = <<>>
    /\ special_num = 0
    /\ exc = ""

(***************************************************************************)
(* The frequency builder.  A CSV cell is a string; a missing cell (NaN     *)
(* after pd.read_csv) is None.  The cell of 'Winning Numbers' is held as   *)
(* the tokens str(row).strip().split() yields.                             *)
(***************************************************************************)
DateCells == {"not a date", "2021-03-02", "2023-01-04"}
NumberCells ==
    {None, Some(<<"1", "2">>), Some(<<"2", "3">>), Some(<<"2", "x">>)}
SpecialCells == {None, Some("x"), Some("1"), Some("3")}
NowYears == {2024}
AllColumns == {"Draw Date", "Winning Numbers", "Special"}
ColumnSets == {AllColumns} \cup {AllColumns \ {c} : c \in AllColumns}

Rows == [draw_date : DateCells, winning_numbers : NumberCells, special : SpecialCells]
RowLists == UNION {[1..n -> Rows] : n \in 0..MaxRecords}

\* pd.to_datetime(..., errors="coerce") followed by .dt.year: the year, None for NaT
to_datetime_year(cell) ==
    CASE cell = "2021-03-02" -> Some(2021)
      [] cell = "2023-01-04" -> Some(2023)
      [] OTHER -> None

\* int(n) on a token: the literals Python accepts among the tokens of the model
IntLiterals == <<"0", "1", "2", "3", "4", "5", "6", "7", "8", "9">>
int_raises(tok) == \A i \in DOMAIN IntLiterals : IntLiterals[i] # tok
int(tok) == (CHOOSE i \in DOMAIN IntLiterals : IntLiterals[i] = tok) - 1

\* lines 34-36: the row filter (boolean indexing keeps the rows in order); a NaT
\* year compares False
in_window(row, cutoff_year) ==
    LET y == to_datetime_year(row.draw_date)
    IN  y # None /\ Val(y) >= cutoff_year
load_lottery_data(rows, n_years, year_now) ==
    LET cutoff_year == year_now - n_years
        Keep(r) == in_window(r, cutoff_year)
    IN  SelectSeq(rows, Keep)

\* lines 52-57: main_nums, the tokens of every non-missing cell, in order
RECURSIVE main_tokens(_)
main_tokens(rows) ==
    IF rows = <<>> THEN <<>>
    ELSE (IF Head(rows).winning_numbers = None THEN <<>>
          ELSE Val(Head(rows).winning_numbers))
         \o main_tokens(Tail(rows))

\* line 59: df[special_col].dropna(), the non-missing special cells, in order
RECURSIVE special_tokens(_)
special_tokens(rows) ==
    IF rows = <<>> THEN <<>>
    ELSE (IF Head(rows).special = None THEN <<>>
          ELSE <<Val(Head(rows).special)>>)
         \o special_tokens(Tail(rows))

\* pd.Series(values).value_counts(): each value that occurs -> its occurrences
value_counts(values) ==
    [v \in {values[i] : i \in DOMAIN values} |->
        Cardinality({i \in DOMAIN values : values[i] = v})]

\* lines 57, 59: int(n) raises ValueError on a non-numeric token
parse_raises(rows) ==
    \/ \E i \in DOMAIN main_tokens(rows) : int_raises(main_tokens(rows)[i])
    \/ \E i \in DOMAIN special_tokens(rows) : int_raises(special_tokens(rows)[i])

\* lines 52-64: the two distributions
parse_numbers(rows) ==
    LET mt == main_tokens(rows)
        st == special_tokens(rows)
    IN  [main_freq |-> value_counts([i \in DOMAIN mt |-> int(mt[i])]),
         special_freq |-> value_counts([i \in DOMAIN st |-> int(st[i])])]

BuilderIdle ==
    /\ csv = [columns |-> AllColumns, rows |-> <<>>]
    /\ years = 1
    /\ now_year = 0
    /\ df = <<>>
    /\ bpc = "idle"
    /\ built = None
    /\ bexc = ""

\* lines 25-38: the download succeeded and the frame is filtered
Load ==
    /\ bpc = "load"
    /\ "Draw Date" \in csv.columns
    /\ df' = load_lottery_data(csv.rows, years, now_year)
    /\ bpc' = "parse"
    /\ UNCHANGED <<csv, years, now_year, built, bexc, tvars, hvars, cvars>>

\* lines 31-32: no 'Draw Date' column
LoadRaisesNoColumn ==
    /\ bpc = "load"
    /\ "Draw Date" \notin csv.columns
    /\ bpc' = "raised"
    /\ bexc' = "ValueError: Expected column"
    /\ UNCHANGED <<csv, years, now_year, df, built, tvars, hvars, cvars>>

\* lines 25-26: the request fails (requests.get or raise_for_status raises)
LoadRaisesHTTP ==
    /\ bpc = "load"
    /\ bpc' = "raised"
    /\ bexc' = "RequestException"
    /\ UNCHANGED <<csv, years, now_year, df, built, tvars, hvars, cvars>>

\* lines 47-50: a column parse_numbers needs is absent
ParseRaisesNoColumn ==
    /\ bpc = "parse"
    /\ ~({"Winning Numbers", "Special"} \subseteq csv.columns)
    /\ bpc' = "raised"
    /\ bexc' = "ValueError: Expected column"
    /\ UNCHANGED <<csv, years, now_year, df, built, tvars, hvars, cvars>>

\* lines 57, 59: a token is not an integer literal
ParseRaisesLiteral ==
    /\ bpc = "parse"
    /\ {"Winning Numbers", "Special"} \subseteq csv.columns
    /\ parse_raises(df)
    /\ bpc' = "raised"
    /\ bexc' = "ValueError: invalid literal"
    /\ UNCHANGED <<csv, years, now_year, df, built, tvars, hvars, cvars>>

\* lines 52-64: parse_numbers returns
Parse ==
    /\ bpc = "parse"
    /\ {"Winning Numbers", "Special"} \subseteq csv.columns
    /\ ~parse_raises(df)
    /\ built' = Some(parse_numbers(df))
    /\ bpc' = "built"
    /\ UNCHANGED <<csv, years, now_year, df, bexc, tvars, hvars, cvars>>

Builder ==
    \/ Load
    \/ LoadRaisesNoColumn
    \/ LoadRaisesHTTP
    \/ ParseRaisesNoColumn
    \/ ParseRaisesLiteral
    \/ Parse

(***************************************************************************)
(* generate_ticket (lines 73-89), one action per step.                     *)
(***************************************************************************)
\* line 75: choose the branch; line 76: picked = set()
Enter ==
    /\ pc = "enter"
    /\ IF takes_weighted(targs)
       THEN pc' = "while" /\ picked' = {}
       ELSE pc' = "uniform" /\ picked' = picked
    /\ UNCHANGED <<drawn, targs, main_nums, special_num, exc, bvars, hvars, cvars>>

\* lines 77-78: one iteration that draws n
Draw(n) ==
    /\ pc = "while"
    /\ loop_continues(picked, targs.main_count)
    /\ ~weighted_pick_raises(Val(targs.main_freq))
    /\ n \in weighted_pick(Val(targs.main_freq))
    /\ drawn' = n
    /\ picked' = picked \cup {n}
    /\ UNCHANGED <<targs, pc, main_nums, special_num, exc, bvars, hvars, cvars>>

\* lines 77-78: weighted_pick raises on an empty main distribution
DrawRaises ==
    /\ pc = "while"
    /\ loop_continues(picked, targs.main_count)
    /\ weighted_pick_raises(Val(targs.main_freq))
    /\ pc' = "raised"
    /\ exc' = "IndexError"
    /\ UNCHANGED <<drawn, targs, picked, main_nums, special_num, bvars, hvars, cvars>>

\* lines 77, 79: the loop ends; main_nums = sorted(picked)
ExitLoop ==
    /\ pc = "while"
    /\ ~loop_continues(picked, targs.main_count)
    /\ main_nums' = sorted(picked)
    /\ pc' = "special"
    /\ UNCHANGED <<drawn, targs, picked, special_num, exc, bvars, hvars, cvars>>

\* lines 81-84, 89: the special number of the weighted branch, kept when in range
SpecialKept ==
    /\ pc = "special"
    /\ ~weighted_pick_raises(Val(targs.special_freq))
    /\ \E s \in weighted_pick(Val(targs.special_freq)) :
          /\ in_official_range(s, targs.special_range)
          /\ special_num' = s
    /\ pc' = "returned"
    /\ UNCHANGED <<drawn, targs, picked, main_nums, exc, bvars, hvars, cvars>>

\* (mutant) an out-of-range sample raises instead of being redrawn
SpecialRedrawn_raising ==
    /\ pc = "special"
    /\ ~weighted_pick_raises(Val(targs.special_freq))
    /\ \E s \in weighted_pick(Val(targs.special_freq)) :
          /\ ~in_official_range(s, targs.special_range)
          /\ special_num' = s
    /\ pc' = "raised"
    /\ exc' = "ValueError"
    /\ UNCHANGED <<drawn, targs, picked, main_nums, bvars, hvars, cvars>>

\* lines 81-84, 89: an out-of-range sample is replaced by random.randint
SpecialRedrawn ==
    /\ pc = "special"
    /\ ~weighted_pick_raises(Val(targs.special_freq))
    /\ \E s \in weighted_pick(Val(targs.special_freq)) :
          ~in_official_range(s, targs.special_range)
    /\ ~randint_raises(targs.special_range)
    /\ \E r \in randint(targs.special_range) : special_num' = r
    /\ pc' = "returned"
    /\ UNCHANGED <<drawn, targs, picked, main_nums, exc, bvars, hvars, cvars>>

\* lines 81-84: random.randint raises on an empty official range
SpecialRedrawRaises ==
    /\ pc = "special"
    /\ ~weighted_pick_raises(Val(targs.special_freq))
    /\ \E s \in weighted_pick(Val(targs.special_freq)) :
          /\ ~in_official_range(s, targs.special_range)
          /\ special_num' = s
    /\ randint_raises(targs.special_range)
    /\ pc' = "raised"
    /\ exc' = "ValueError"
    /\ UNCHANGED <<drawn, targs, picked, main_nums, bvars, hvars, cvars>>

\* line 81: weighted_pick raises on an empty special distribution
SpecialRaises ==
    /\ pc = "special"
    /\ weighted_pick_raises(Val(targs.special_freq))
    /\ pc' = "raised"
    /\ exc' = "IndexError"
    /\ UNCHANGED <<drawn, targs, picked, main_nums, special_num, bvars, hvars, cvars>>

\* lines 86-87, 89: the uniform branch
Uniform ==
    /\ pc = "uniform"
    /\ ~random_sample_raises(targs.main_range, targs.main_count)
    /\ ~randint_raises(targs.special_range)
    /\ \E S \in random_sample(targs.main_range, targs.main_count) :
          main_nums' = sorted(S)
    /\ \E r \in randint(targs.special_range) : special_num' = r
    /\ pc' = "returned"
    /\ UNCHANGED <<drawn, targs, picked, exc, bvars, hvars, cvars>>

\* line 86: random.sample raises; line 87: random.randint raises
UniformRaises ==
    /\ pc = "uniform"
    /\ \/ /\ random_sample_raises(targs.main_range, targs.main_count)
          /\ main_nums' = main_nums
       \/ /\ ~random_sample_raises(targs.main_range, targs.main_count)
          /\ randint_raises(targs.special_range)
          /\ \E S \in random_sample(targs.main_range, targs.main_count) :
                main_nums' = sorted(S)
    /\ pc' = "raised"
    /\ exc' = "ValueError"
    /\ UNCHANGED <<drawn, targs, picked, special_num, bvars, hvars, cvars>>

generate_ticket ==
    \/ Enter
    \/ \E n \in MainKeys : Draw(n)
    \/ DrawRaises
    \/ ExitLoop
    \/ SpecialKept
    \/ SpecialRedrawn
    \/ SpecialRedrawRaises
    \/ SpecialRaises
    \/ Uniform
    \/ UniformRaises

(***************************************************************************)
(* The request handlers index (lines 133-184) and api_generate (lines      *)
(* 187-216).  The official ranges 69/26 and 70/25 and the pick count 5 are *)
(* scaled to the bounds of the model, keeping their order: the pick count  *)
(* is below both main ranges, and megamillions has one more main number    *)
(* and one fewer special number than powerball.                            *)
(***************************************************************************)
Games == {"powerball", "megamillions", "keno"}
PickCount == MaxMainRange
YearsCap == 30
CountCap == 50

\* lines 92-112
get_lottery_config_raises(game) == game \notin {"powerball", "megamillions"}
get_lottery_config(game) ==
    IF game = "powerball"
    THEN [name |-> "Powerball", special_label |-> "Powerball",
          main_range |-> MaxMainRange + 1, special_range |-> MaxSpecialRange]
    ELSE [name |-> "Mega Millions", special_label |-> "Mega Ball",
          main_range |-> MaxMainRange + 2, special_range |-> MaxSpecialRange - 1]

Min(a, b) == IF a <= b THEN a ELSE b
Max(a, b) == IF a >= b THEN a ELSE b
\* lines 152-153, 194-195: max(1, min(v, cap))
clamp(v, cap) == Max(1, Min(v, cap))

Handlers == {"index", "api_generate"}
RawCounts == {"x"} \cup {IntLiterals[i] : i \in 1..(MaxBatch + 1)}
Requests ==
    [method : {"GET", "POST"}, game : Games, years : {"x", "2"},
     count : RawCounts, mode : {"weighted", "uniform"}]

\* What get_cached_freq may hand to a handler: a pair of distributions
\* parse_numbers built (never None), over few or many main values.
CachedPairs ==
    [main_freq : {Some([k \in 1..n |-> 1]) : n \in 0..(PickCount + 1)},
     special_freq : {Some(d) : d \in Distributions({0, 1})}]
NoPair == [main_freq |-> None, special_freq |-> None]

\* lines 139-142: the defaults of index
DefaultLocals ==
    [game |-> "powerball", years |-> 20, count |-> 5, mode |-> "weighted",
     weighted |-> FALSE, main_range |-> 0, special_range |-> 0,
     main_freq |-> None, special_freq |-> None]

HandlerIdle ==
    /\ handler = ""
    /\ request = [method |-> "GET", game |-> "powerball", years |-> "2",
                  count |-> "1", mode |-> "uniform"]
    /\ hpc = "idle"
    /\ hlocals = DefaultLocals
    /\ todo = 0
    /\ results = <<>>
    /\ response = None

Reply(status, error, tickets) ==
    [status |-> status, error |-> error, tickets |-> tickets]

\* lines 144, 176-184: index on a GET renders the defaults and no results
IndexGet ==
    /\ hpc = "start"
    /\ handler = "index"
    /\ request.method = "GET"
    /\ response' = Some(Reply(200, None, results))
    /\ hpc' = "responded"
    /\ UNCHANGED <<handler, request, hlocals, todo, results, tvars, bvars, cvars>>

Handles == handler = "api_generate" \/ request.method = "POST"
RequestParses ==
    /\ ~int_raises(request.years)
    /\ ~int_raises(request.count)
    /\ ~get_lottery_config_raises(request.game)

\* lines 146-160, 189-202: the values are parsed and clamped, the game's
\* configuration is looked up and, in weighted mode, get_cached_freq returns
Prepare ==
    /\ hpc = "start"
    /\ Handles
    /\ RequestParses
    /\ LET cfg == get_lottery_config(request.game)
           weighted == (request.mode = "weighted")
           count == clamp(int(request.count), CountCap)
       IN  /\ \E pair \in (IF weighted THEN CachedPairs ELSE {NoPair}) :
                hlocals' = [game |-> request.game,
                            years |-> clamp(int(request.years), YearsCap),
                            count |-> count,
                            mode |-> request.mode,
                            weighted |-> weighted,
                            main_range |-> cfg.main_range,
                            special_range |-> cfg.special_range,
                            main_freq |-> pair.main_freq,
                            special_freq |-> pair.special_freq]
           /\ todo' = count
    /\ hpc' = "loop"
    /\ UNCHANGED <<handler, request, results, response, tvars, bvars, cvars>>

\* lines 146-160 with 173-184, 189-202: int(), get_lottery_config or
\* get_cached_freq raises before any ticket; index renders the error,
\* api_generate lets it out (a 500 response)
PrepareRaises ==
    /\ hpc = "start"
    /\ Handles
    /\ ~RequestParses \/ request.mode = "weighted"
    /\ response' = IF handler = "index"
                   THEN Some(Reply(200, Some("error"), results))
                   ELSE Some(Reply(500, Some("error"), <<>>))
    /\ hpc' = "responded"
    /\ UNCHANGED <<handler, request, hlocals, todo, results, tvars, bvars, cvars>>

\* lines 162-170, 205-213: the next iteration calls generate_ticket
CallTicket ==
    /\ hpc = "loop"
    /\ todo > 0
    /\ targs' = [main_range |-> hlocals.main_range,
                 special_range |-> hlocals.special_range,
                 main_count |-> PickCount,
                 weighted |-> hlocals.weighted,
                 main_freq |-> hlocals.main_freq,
                 special_freq |-> hlocals.special_freq]
    /\ pc' = "enter"
    /\ picked' = {}
    /\ drawn' = 0
    /\ main_nums' = <<>>
    /\ special_num' = 0
    /\ exc' = ""
    /\ hpc' = "in_ticket"
    /\ UNCHANGED <<handler, request, hlocals, todo, results, response, bvars, cvars>>

\* lines 171, 214: the ticket is appended
TicketReturns ==
    /\ hpc = "in_ticket"
    /\ pc = "returned"
    /\ results' = Append(results, [main |-> main_nums, special |-> special_num])
    /\ todo' = todo - 1
    /\ pc' = "idle"
    /\ hpc' = "loop"
    /\ UNCHANGED <<handler, request, hlocals, response,
                   targs, picked, drawn, main_nums, special_num, exc, bvars, cvars>>

\* lines 173-184: index catches the exception of generate_ticket and renders
\* `results` as it stands together with the error; api_generate (no try)
\* lets it out, a 500 response without tickets
TicketRaises ==
    /\ hpc = "in_ticket"
    /\ pc = "raised"
    /\ response' = IF handler = "index"
                   THEN Some(Reply(200, Some(exc), results))
                   ELSE Some(Reply(500, Some(exc), <<>>))
    /\ hpc' = "responded"
    /\ UNCHANGED <<handler, request, hlocals, todo, results, tvars, bvars, cvars>>

\* lines 176-184, 216: the loop is over, the tickets are sent
Respond ==
    /\ hpc = "loop"
    /\ todo = 0
    /\ response' = Some(Reply(200, None, results))
    /\ hpc' = "responded"
    /\ UNCHANGED <<handler, request, hlocals, todo, results, tvars, bvars, cvars>>

(***************************************************************************)
(* The cache (lines 13-17) and get_cached_freq (lines 115-130).  A frame   *)
(* or a distribution is held by what it was computed from: the number of   *)
(* the refresh computation that made it (its identity as an object), the   *)
(* game, the window `years` and the day of the call.                       *)
(***************************************************************************)
CacheGames == {"powerball", "megamillions"}
EmptySlot == [ts |-> None, df |-> None, main_freq |-> None, special_freq |-> None]

\* line 123: the frame of refresh `id`
load_frame(game, n_years, day, id) ==
    [id |-> id, game |-> game, years |-> n_years, day |-> day]
\* line 124: the distributions parse_numbers makes of a frame
freq_of(frame, part) ==
    [part |-> part, id |-> frame.id, game |-> frame.game,
     years |-> frame.years, day |-> frame.day]

\* line 119: the cached pair is served
cache_hit(slot, today) ==
    slot.ts = Some(today) /\ slot.main_freq # None /\ slot.special_freq # None

NoThread ==
    [pc |-> "idle", game |-> "powerball", years |-> 1, today |-> 1,
     df |-> None, main_freq |-> None, special_freq |-> None,
     ret_main |-> None, ret |-> None]

CacheIdle ==
    /\ CACHE = [g \in CacheGames |-> EmptySlot]
    /\ clock = 1
    /\ nextId = 1
    /\ last = None
    /\ threads = [t \in 1..NThreads |-> NoThread]

\* the calendar day changes
Tick ==
    /\ clock < MaxDay
    /\ clock' = clock + 1
    /\ UNCHANGED <<CACHE, nextId, last, threads, tvars, bvars, hvars>>

Returned_(game, n_years, today, main_freq, special_freq) ==
    [game |-> game, years |-> n_years, today |-> today, outcome |-> "returned",
     main_freq |-> main_freq, special_freq |-> special_freq]

\* lines 116-120: a whole call that finds the slot fresh
SeqHit(game, n_years) ==
    /\ cache_hit(CACHE[game], clock)
    /\ last' = Some(Returned_(game, n_years, clock,
                              CACHE[game].main_freq, CACHE[game].special_freq))
    /\ UNCHANGED <<CACHE, clock, nextId, threads, tvars, bvars, hvars>>

\* lines 116-130: a whole call that recomputes and stores the pair
SeqRefresh(game, n_years) ==
    /\ ~cache_hit(CACHE[game], clock)
    /\ nextId <= MaxRefresh
    /\ LET frame == load_frame(game, n_years, clock, nextId)
           main_freq == Some(freq_of(frame, "main"))
           special_freq == Some(freq_of(frame, "special"))
       IN  /\ CACHE' = [CACHE EXCEPT ![game] =
                           [ts |-> Some(clock), df |-> Some(frame),
                            main_freq |-> main_freq, special_freq |-> special_freq]]
           /\ last' = Some(Returned_(game, n_years, clock, main_freq, special_freq))
    /\ nextId' = nextId + 1
    /\ UNCHANGED <<clock, threads, tvars, bvars, hvars>>

\* lines 122-124: load_lottery_data or parse_numbers raises; the slot is untouched
SeqRefreshRaises(game, n_years) ==
    /\ ~cache_hit(CACHE[game], clock)
    /\ last' = Some([game |-> game, years |-> n_years, today |-> clock,
                     outcome |-> "raised", main_freq |-> None, special_freq |-> None])
    /\ UNCHANGED <<CACHE, clock, nextId, threads, tvars, bvars, hvars>>

(***************************************************************************)
(* get_cached_freq run by concurrent request threads (app.run serves each  *)
(* request in a thread of its own): one action per read or write of CACHE. *)
(***************************************************************************)
Thread == 1..NThreads
Goto(t, where) == [threads EXCEPT ![t].pc = where]
Slot(t) == CACHE[threads[t].game]
cframe == <<clock, nextId, last, tvars, bvars, hvars>>

\* lines 116-117: the call starts, today = date.today()
Begin(t, game, n_years) ==
    /\ threads[t].pc = "idle"
    /\ threads' = [threads EXCEPT ![t] =
                      [NoThread EXCEPT !.pc = "check_ts", !.game = game,
                                       !.years = n_years, !.today = clock]]
    /\ UNCHANGED <<CACHE, cframe>>

\* line 119: cache["ts"] == today
CheckTs(t) ==
    /\ threads[t].pc = "check_ts"
    /\ threads' = Goto(t, IF Slot(t).ts = Some(threads[t].today)
                          THEN "check_main" ELSE "load")
    /\ UNCHANGED <<CACHE, cframe>>

\* line 119: cache["main_freq"] is not None
CheckMain(t) ==
    /\ threads[t].pc = "check_main"
    /\ threads' = Goto(t, IF Slot(t).main_freq # None
                          THEN "check_special" ELSE "load")
    /\ UNCHANGED <<CACHE, cframe>>

\* line 119: cache["special_freq"] is not None
CheckSpecial(t) ==
    /\ threads[t].pc = "check_special"
    /\ threads' = Goto(t, IF Slot(t).special_freq # None
                          THEN "read_main" ELSE "load")
    /\ UNCHANGED <<CACHE, cframe>>

\* line 120: the first element of the returned pair is read
ReadMain(t) ==
    /\ threads[t].pc = "read_main"
    /\ threads' = [threads EXCEPT ![t].pc = "read_special",
                                  ![t].ret_main = Slot(t).main_freq]
    /\ UNCHANGED <<CACHE, cframe>>

\* line 120: the second element is read and the pair returned
ReadSpecial(t) ==
    /\ threads[t].pc = "read_special"
    /\ threads' = [threads EXCEPT
                      ![t].pc = "done",
                      ![t].ret = Some([main_freq |-> threads[t].ret_main,
                                       special_freq |-> Slot(t).special_freq])]
    /\ UNCHANGED <<CACHE, cframe>>

\* lines 122-124: the refresh computation
Compute(t) ==
    /\ threads[t].pc = "load"
    /\ nextId <= MaxRefresh
    /\ LET frame == load_frame(threads[t].game, threads[t].years,
                               threads[t].today, nextId)
       IN  threads' = [threads EXCEPT
                          ![t].pc = "write_ts",
                          ![t].df = Some(frame),
                          ![t].main_freq = Some(freq_of(frame, "main")),
                          ![t].special_freq = Some(freq_of(frame, "special"))]
    /\ nextId' = nextId + 1
    /\ UNCHANGED <<CACHE, clock, last, tvars, bvars, hvars>>

\* lines 122-124: load_lottery_data or parse_numbers raises
ComputeRaises(t) ==
    /\ threads[t].pc = "load"
    /\ threads' = Goto(t, "raised")
    /\ UNCHANGED <<CACHE, cframe>>

\* line 126
WriteTs(t) ==
    /\ threads[t].pc = "write_ts"
    /\ CACHE' = [CACHE EXCEPT ![threads[t].game].ts = Some(threads[t].today)]
    /\ threads' = Goto(t, "write_df")
    /\ UNCHANGED cframe

\* line 127
WriteDf(t) ==
    /\ threads[t].pc = "write_df"
    /\ CACHE' = [CACHE EXCEPT ![threads[t].game].df = threads[t].df]
    /\ threads' = Goto(t, "write_main")
    /\ UNCHANGED cframe

\* line 128
WriteMain(t) ==
    /\ threads[t].pc = "write_main"
    /\ CACHE' = [CACHE EXCEPT ![threads[t].game].main_freq = threads[t].main_freq]
    /\ threads' = Goto(t, "write_special")
    /\ UNCHANGED cframe

\* lines 129-130: the last write, and the fresh pair is returned
WriteSpecial(t) ==
    /\ threads[t].pc = "write_special"
    /\ CACHE' = [CACHE EXCEPT ![threads[t].game].special_freq = threads[t].special_freq]
    /\ threads' = [threads EXCEPT
                      ![t].pc = "done",
                      ![t].ret = Some([main_freq |-> threads[t].main_freq,
                                       special_freq |-> threads[t].special_freq])]
    /\ UNCHANGED cframe

\* the request is over; the thread serves another one
Finish(t) ==
    /\ threads[t].pc \in {"done", "raised"}
    /\ threads' = [threads EXCEPT ![t] = NoThread]
    /\ UNCHANGED <<CACHE, cframe>>

(***************************************************************************)
(* TicketSpec: one call of generate_ticket on any arguments.               *)
(***************************************************************************)
TicketInit ==
    /\ targs \in TicketArgs
    /\ pc = "enter"
    /\ picked = {}
    /\ drawn = 0
    /\ main_nums = <<>>
    /\ special_num = 0
    /\ exc = ""
    /\ BuilderIdle
    /\ HandlerIdle
    /\ CacheIdle

TicketNext == generate_ticket

TicketSpec == TicketInit /\ [][TicketNext]_vars

(***************************************************************************)
(* LoopSpec: the calls of generate_ticket that take the weighted branch    *)
(* (weighted, both distributions given), under a sampler with positive     *)
(* weights: the program keeps stepping, and a value that stays drawable is *)
(* eventually drawn.  The steps of the uniform branch are never enabled    *)
(* and are not listed.                                                     *)
(***************************************************************************)
LoopArgs ==
    [main_range : {MaxMainRange},
     special_range : 0..1,
     main_count : 0..MaxCount,
     weighted : {TRUE},
     main_freq : {Some(d) : d \in Distributions(MainKeys)},
     special_freq : {Some(d) : d \in Distributions({0, 1})}]

LoopInit ==
    /\ targs \in LoopArgs
    /\ pc = "enter"
    /\ picked = {}
    /\ drawn = 0
    /\ main_nums = <<>>
    /\ special_num = 0
    /\ exc = ""
    /\ BuilderIdle
    /\ HandlerIdle
    /\ CacheIdle

LoopNext ==
    \/ Enter
    \/ \E n \in MainKeys : Draw(n)
    \/ DrawRaises
    \/ ExitLoop
    \/ SpecialKept
    \/ SpecialRedrawn
    \/ SpecialRedrawRaises
    \/ SpecialRaises

LoopSpec ==
    /\ LoopInit
    /\ [][LoopNext]_vars
    /\ WF_vars(LoopNext)
    /\ \A n \in MainKeys : WF_vars(Draw(n))

(***************************************************************************)
(* Properties of generate_ticket.                                          *)
(***************************************************************************)
Returned == pc = "returned"
WeightedBranch == takes_weighted(targs)
IsSortedAscending(s) == \A i \in 1..(Len(s) - 1) : s[i] < s[i + 1]
ValidMain(s, main_range, main_count) ==
    /\ Len(s) = main_count
    /\ \A i, j \in 1..Len(s) : i # j => s[i] # s[j]
    /\ \A i \in 1..Len(s) : 1 <= s[i] /\ s[i] <= main_range
    /\ IsSortedAscending(s)

\* C1: every returned ticket has exactly main_count main numbers, pairwise
\* distinct, each within [1, main_range], sorted ascending, in either mode and
\* for any main_freq.
C1_MainNumbersValid ==
    Returned => ValidMain(main_nums, targs.main_range, targs.main_count)

\* C2: the special number of every returned ticket is within [1, special_range],
\* in uniform and in weighted mode, also when special_freq holds keys outside
\* the range.
C2_SpecialInRange ==
    Returned => (1 <= special_num /\ special_num <= targs.special_range)

\* C2 witness: a weighted ticket was returned although every key of
\* special_freq lies outside [1, special_range] (the sample was redrawn).
C2_Witness ==
    /\ Returned
    /\ WeightedBranch
    /\ DOMAIN Val(targs.special_freq) # {}
    /\ \A k \in DOMAIN Val(targs.special_freq) :
          ~(1 <= k /\ k <= targs.special_range)

EmptyOrAbsent(o) == o = None \/ DOMAIN Val(o) = {}

\* C3: a weighted request whose main or special distribution is empty or
\* absent does not fail and returns a structurally valid ticket (the
\* arguments being ones the uniform branch accepts).
C3_EmptyDistributionFallsBack ==
    ( /\ targs.weighted
      /\ EmptyOrAbsent(targs.main_freq) \/ EmptyOrAbsent(targs.special_freq)
      /\ targs.main_count <= targs.main_range
      /\ targs.special_range >= 1 )
    => /\ pc # "raised"
       /\ Returned =>
            /\ ValidMain(main_nums, targs.main_range, targs.main_count)
            /\ special_num \in 1..targs.special_range

\* C4: a call with main_count > main_range never returns a ticket (it fails
\* with a constraint error), in uniform and in weighted mode.
C4_ConstraintError ==
    targs.main_count > targs.main_range => ~Returned

\* C10: in weighted mode the picked set never shrinks and grows only by keys
\* of main_freq, the loop goes on only below main_count values and ends holding
\* exactly main_count; with at least main_count keys in main_freq it ends.
C10_LoopTerminates ==
    /\ [][pc = "while" =>
            /\ picked \subseteq picked'
            /\ (picked' \ picked) \subseteq DOMAIN Val(targs.main_freq)
            /\ pc' = "while" => Cardinality(picked) < targs.main_count
            /\ pc' = "special" =>
                  /\ Cardinality(picked) = targs.main_count
                  /\ main_nums' = sorted(picked)]_vars
    /\ (pc = "while" /\ Cardinality(DOMAIN Val(targs.main_freq)) >= targs.main_count)
          ~> (pc = "special")

\* C10 witness: the loop ended after drawing main_count >= 2 values from main_freq.
C10_Witness ==
    /\ pc = "special"
    /\ targs.main_count >= 2
    /\ Cardinality(picked) = targs.main_count

(***************************************************************************)
(* BuilderSpec: load_lottery_data then parse_numbers on any dataset.       *)
(***************************************************************************)
BuilderInit ==
    /\ csv \in [columns : ColumnSets, rows : RowLists]
    /\ years \in 1..MaxYears
    /\ now_year \in NowYears
    /\ df = <<>>
    /\ bpc = "load"
    /\ built = None
    /\ bexc = ""
    /\ TicketIdle
    /\ HandlerIdle
    /\ CacheIdle

BuilderNext == Builder

BuilderSpec == BuilderInit /\ [][BuilderNext]_vars

(***************************************************************************)
(* Properties of the builder.                                              *)
(***************************************************************************)
Built == bpc = "built"
HasNumbers(r) == r.winning_numbers # None
HasSpecial(r) == r.special # None
\* occurrences of v among the main numbers of row r
MainOccurrences(r, v) ==
    IF HasNumbers(r)
    THEN Cardinality({j \in DOMAIN Val(r.winning_numbers) :
                         ~int_raises(Val(r.winning_numbers)[j])
                         /\ int(Val(r.winning_numbers)[j]) = v})
    ELSE 0
RECURSIVE SumOver(_, _)
SumOver(S, f) ==
    IF S = {} THEN 0
    ELSE LET x == CHOOSE y \in S : TRUE IN f[x] + SumOver(S \ {x}, f)
Values == 0..9
TallyOf(d, v) == IF v \in DOMAIN d THEN d[v] ELSE 0

\* C6: the main tally of v is the number of occurrences of v among the main
\* numbers of the retained records, the special tally of v is the number of
\* retained records with special number v, one increment per record (both
\* distributions are built from the same records), and every key has tally >= 1.
C6_TalliesMatchRecords ==
    Built =>
      LET m == Val(built).main_freq
          s == Val(built).special_freq
      IN  /\ \A v \in Values :
                TallyOf(m, v) =
                  SumOver(DOMAIN df, [i \in DOMAIN df |-> MainOccurrences(df[i], v)])
          /\ \A v \in Values :
                TallyOf(s, v) =
                  Cardinality({i \in DOMAIN df :
                                  HasSpecial(df[i]) /\ ~int_raises(Val(df[i].special))
                                  /\ int(Val(df[i].special)) = v})
          /\ {i \in DOMAIN df : HasNumbers(df[i])} = {i \in DOMAIN df : HasSpecial(df[i])}
          /\ \A v \in DOMAIN m : m[v] >= 1
          /\ \A v \in DOMAIN s : s[v] >= 1

\* a record with a parseable date, numeric main numbers and a numeric special
WellFormed(r) ==
    /\ to_datetime_year(r.draw_date) # None
    /\ HasNumbers(r)
    /\ \A j \in DOMAIN Val(r.winning_numbers) : ~int_raises(Val(r.winning_numbers)[j])
    /\ HasSpecial(r)
    /\ ~int_raises(Val(r.special))

\* C8: a record with an unparseable date, a non-numeric number field or a
\* missing field raises no error and is left out of both distributions; the
\* well-formed records in the window are tallied.
C8_MalformedExcludedSilently ==
    /\ bexc # "ValueError: invalid literal"
    /\ Built =>
         LET good == SelectSeq(load_lottery_data(csv.rows, years, now_year), WellFormed)
         IN  Val(built) = parse_numbers(good)

(***************************************************************************)
(* BatchSpec: one request served by index or api_generate.  Under the two  *)
(* configurations the pick count is within main_range and special_range    *)
(* is at least 1, so the steps UniformRaises and SpecialRedrawRaises of    *)
(* generate_ticket are never enabled (BatchNeverRaisesOnRange) and are not *)
(* listed.                                                                 *)
(***************************************************************************)
BatchInit ==
    /\ handler \in Handlers
    /\ request \in Requests
    /\ hpc = "start"
    /\ hlocals = DefaultLocals
    /\ todo = 0
    /\ results = <<>>
    /\ response = None
    /\ TicketIdle
    /\ BuilderIdle
    /\ CacheIdle

BatchNext ==
    \/ IndexGet
    \/ Prepare
    \/ PrepareRaises
    \/ CallTicket
    \/ TicketReturns
    \/ TicketRaises
    \/ Respond
    \/ Enter
    \/ \E n \in MainKeys : Draw(n)
    \/ DrawRaises
    \/ ExitLoop
    \/ SpecialKept
    \/ SpecialRedrawn
    \/ SpecialRaises
    \/ Uniform

BatchSpec == BatchInit /\ [][BatchNext]_vars

BatchNeverRaisesOnRange ==
    ~ENABLED UniformRaises /\ ~ENABLED SpecialRedrawRaises

(***************************************************************************)
(* CacheSeqSpec: get_cached_freq called again and again, one call at a     *)
(* time, over the days.                                                    *)
(***************************************************************************)
CacheSeqInit ==
    /\ CacheIdle
    /\ TicketIdle
    /\ BuilderIdle
    /\ HandlerIdle

CacheSeqNext ==
    \/ Tick
    \/ \E g \in CacheGames, y \in 1..MaxYears : SeqHit(g, y)
    \/ \E g \in CacheGames, y \in 1..MaxYears : SeqRefresh(g, y)
    \/ \E g \in CacheGames, y \in 1..MaxYears : SeqRefreshRaises(g, y)

CacheSeqSpec == CacheSeqInit /\ [][CacheSeqNext]_vars

(***************************************************************************)
(* CacheSpec: get_cached_freq called by concurrent threads.                *)
(***************************************************************************)
CacheNext ==
    \/ Tick
    \/ \E t \in Thread, g \in CacheGames, y \in 1..MaxYears : Begin(t, g, y)
    \/ \E t \in Thread : CheckTs(t)
    \/ \E t \in Thread : CheckMain(t)
    \/ \E t \in Thread : CheckSpecial(t)
    \/ \E t \in Thread : ReadMain(t)
    \/ \E t \in Thread : ReadSpecial(t)
    \/ \E t \in Thread : Compute(t)
    \/ \E t \in Thread : ComputeRaises(t)
    \/ \E t \in Thread : WriteTs(t)
    \/ \E t \in Thread : WriteDf(t)
    \/ \E t \in Thread : WriteMain(t)
    \/ \E t \in Thread : WriteSpecial(t)
    \/ \E t \in Thread : Finish(t)

CacheSpec == CacheSeqInit /\ [][CacheNext]_vars

(***************************************************************************)
(* Properties of the handlers and of the cache.                            *)
(***************************************************************************)
\* C7: when generating a ticket of a batch fails, the whole batch fails: no
\* response of index or api_generate carries a non-empty list of tickets
\* together with the error.
C7_NoPartialBatch ==
    response # None =>
        ~(Val(response).error # None /\ Val(response).tickets # <<>>)

\* C7 witness: a batch of at least two tickets was asked for, generate_ticket
\* raised, and the response carries the error.
C7_Witness ==
    /\ response # None
    /\ Val(response).error # None
    /\ hlocals.count >= 2
    /\ pc = "raised"

\* C5: a call of get_cached_freq(game, years) returns a pair computed for the
\* requested window `years` and for the current day.
C5_ReturnedPairMatchesRequest ==
    (last # None /\ Val(last).outcome = "returned") =>
        LET r == Val(last)
        IN  /\ Val(r.main_freq).years = r.years
            /\ Val(r.special_freq).years = r.years
            /\ Val(r.main_freq).day = r.today
            /\ Val(r.special_freq).day = r.today
            /\ Val(r.main_freq).game = r.game
            /\ Val(r.special_freq).game = r.game

\* C9: under any interleaving, a call returns a pair whose two distributions
\* were made by one and the same refresh computation, of the day of the call.
C9_PairFromOneRefreshOfToday ==
    \A t \in Thread :
        threads[t].pc = "done" =>
            LET r == Val(threads[t].ret)
            IN  /\ r.main_freq # None
                /\ r.special_freq # None
                /\ Val(r.main_freq).id = Val(r.special_freq).id
                /\ Val(r.main_freq).day = threads[t].today
                /\ Val(r.special_freq).day = threads[t].today

====
